---- MODULE Spec2Model ----
(***************************************************************************)
(* txtxl.py: split a delimited text file into one text file per            *)
(* instruction code (split_file_by_instruction_code), then convert every   *)
(* text file of the intermediate folder into Excel workbooks of at most    *)
(* max_rows rows (convert_text_to_excel), as driven by main().             *)
(*                                                                         *)
(* A string is a sequence of one-character strings; a file is the string   *)
(* of its content; a folder is a function from file names to contents.     *)
(***************************************************************************)
EXTENDS Integers, Sequences, FiniteSets, Bags, TLC

VARIABLES
    input_file,      \* content of the input file (args.input_file)
    max_rows,        \* args.max_rows
    unwritable,      \* workbook names the output folder refuses to create
    intermediate,    \* the folder <input_dir>/intermediate
    excel_output,    \* the output folder: workbook name -> workbook
    pc,              \* position of main()
    lines,           \* split_file_by_instruction_code: lines
    header,          \* split_file_by_instruction_code: header
    idx,             \* index in lines of the next data line of the grouping loop
    grouped_data,    \* the dict, in insertion order: <<[key, records], ...>>
    written,         \* the output_file paths opened for writing, in order
    text_files,      \* convert_text_to_excel: files of the glob not yet processed
    excel_files,     \* convert_text_to_excel: excel_files
    globbed,         \* every file the glob of this run returned
    parsed,          \* files pd.read_csv returned a frame for
    errors,          \* files reported by "Error processing ..."
    created,         \* file -> the batches reported by "Created: ..." for it
    run,             \* number of the current run of main() in this directory
    dir0,            \* the intermediate folder as this run found it
    prev             \* what the previous run left: input, configuration, folders

vars == <<input_file, max_rows, unwritable, intermediate, excel_output, pc, lines,
          header, idx, grouped_data, written, text_files, excel_files, globbed,
          parsed, errors, created, run, dir0, prev>>

(***************************************************************************)
(* Bounds of the model.                                                    *)
(***************************************************************************)
MaxLines == 3        \* data lines of an input file
MaxRows == 2         \* largest max_rows tried
MaxNeg == 1          \* most negative max_rows tried is -MaxNeg
MaxRuns == 2         \* runs of main() in one directory (SpecTwice)
TwiceMaxLines == 3   \* data lines of an input file under SpecTwice

(***************************************************************************)
(* Strings.                                                                *)
(***************************************************************************)
NL == "\n"
DefaultDelimiter == "~"
Whitespace == {" ", NL}

EmptyDir == [name \in {} |-> <<>>]

RECURSIVE Concat(_)
Concat(ss) == IF ss = <<>> THEN <<>> ELSE Head(ss) \o Concat(Tail(ss))

Range(s) == {s[i] : i \in DOMAIN s}

RECURSIVE LStrip(_)
LStrip(s) == IF s # <<>> /\ Head(s) \in Whitespace THEN LStrip(Tail(s)) ELSE s

RECURSIVE RStrip(_)
RStrip(s) ==
    IF s # <<>> /\ s[Len(s)] \in Whitespace
    THEN RStrip(SubSeq(s, 1, Len(s) - 1))
    ELSE s

\* str.strip(): leading and trailing whitespace removed
Strip(s) == LStrip(RStrip(s))

\* str.split(delimiter): the fields between the occurrences of the delimiter
RECURSIVE SplitFrom(_, _, _)
SplitFrom(s, d, cur) ==
    IF s = <<>> THEN <<cur>>
    ELSE IF Head(s) = d THEN <<cur>> \o SplitFrom(Tail(s), d, <<>>)
    ELSE SplitFrom(Tail(s), d, Append(cur, Head(s)))

Split(s, d) == SplitFrom(s, d, <<>>)

\* file.readlines(): the lines of a content, each with its line ending
RECURSIVE ReadLinesFrom(_, _)
ReadLinesFrom(s, cur) ==
    IF s = <<>> THEN (IF cur = <<>> THEN <<>> ELSE <<cur>>)
    ELSE IF Head(s) = NL THEN <<Append(cur, NL)>> \o ReadLinesFrom(Tail(s), <<>>)
    ELSE ReadLinesFrom(Tail(s), Append(cur, Head(s)))

ReadLines(content) == ReadLinesFrom(content, <<>>)

Digits == <<"0", "1", "2", "3", "4", "5", "6", "7", "8", "9">>

\* str(k) for k >= 0
RECURSIVE Str(_)
Str(k) == IF k < 10 THEN <<Digits[k + 1]>> ELSE Str(k \div 10) \o <<Digits[(k % 10) + 1]>>

\* Python's a // b (floor division) for b # 0
FloorDiv(a, b) == IF b > 0 THEN a \div b ELSE (0 - a) \div (0 - b)

Min(a, b) == IF a < b THEN a ELSE b
Max(a, b) == IF a > b THEN a ELSE b

(***************************************************************************)
(* Folders.  File names hold no path separator, so os.path.join(folder,    *)
(* name) names one entry of the folder.                                    *)
(***************************************************************************)
Put(dir, name, content) ==
    [n \in (DOMAIN dir) \cup {name} |-> IF n = name THEN content ELSE dir[n]]

TxtExt == <<".", "t", "x", "t">>
XlsxExt == <<".", "x", "l", "s", "x">>
PartTag == <<"_", "p", "a", "r", "t">>

\* glob.glob(os.path.join(input_folder, "*.txt")): the names ending in .txt; a
\* name starting with a dot is hidden from a pattern that starts with "*"
Glob(dir) ==
    {f \in DOMAIN dir :
        /\ Len(f) >= Len(TxtExt)
        /\ SubSeq(f, Len(f) - Len(TxtExt) + 1, Len(f)) = TxtExt
        /\ f[1] # "."}

\* os.path.splitext(name)[0]: the name up to its last dot, unless only dots
\* precede that dot
LastDot(name) ==
    IF \E j \in DOMAIN name : name[j] = "."
    THEN CHOOSE j \in DOMAIN name :
            /\ name[j] = "."
            /\ \A k \in DOMAIN name : name[k] = "." => k <= j
    ELSE 0

SplitExtRoot(name) ==
    IF \E j \in 1..(LastDot(name) - 1) : name[j] # "."
    THEN SubSeq(name, 1, LastDot(name) - 1)
    ELSE name

(***************************************************************************)
(* split_file_by_instruction_code                                          *)
(***************************************************************************)
\* the column holding the instruction code: columns[1]
KeyColumn == 1

Columns(line) == Split(Strip(line), DefaultDelimiter)

KeyIndex_first == KeyColumn - 1

\* the index columns[...] is read at
KeyIndex == KeyColumn

\* columns[1] raises IndexError
IndexError(columns) == Len(columns) < KeyIndex + 1

InstructionCode(columns) == columns[KeyIndex + 1]

Record_stripped(line) == Strip(line)

\* what grouped_data[instruction_code].append(line) appends
Record(line) == line

\* grouped_data after the body of the grouping loop for one line
AddRecord(g, code, line) ==
    IF \E j \in DOMAIN g : g[j].key = code
    THEN [j \in DOMAIN g |->
            IF g[j].key = code
            THEN [g[j] EXCEPT !.records = Append(@, Record(line))]
            ELSE g[j]]
    ELSE Append(g, [key |-> code, records |-> <<Record(line)>>])

OutputFile(code) == code \o TxtExt

\* what one pass of the writing loop writes to output_file
GroupContent(hdr, records) == hdr \o <<NL>> \o Concat(records)

NoLocals ==
    /\ lines' = <<>>
    /\ header' = <<>>
    /\ idx' = 0
    /\ grouped_data' = <<>>

\* main() calls split_file_by_instruction_code: the file is read, the header
\* taken from lines[0]
ReadInput ==
    /\ pc = "start"
    /\ lines' = ReadLines(input_file)
    /\ IF lines' = <<>>
       THEN /\ pc' = "failed"
            /\ header' = <<>>
       ELSE /\ pc' = "split"
            /\ header' = Strip(lines'[1])
    /\ idx' = 2
    /\ grouped_data' = <<>>
    /\ written' = <<>>
    /\ UNCHANGED <<input_file, max_rows, unwritable, intermediate, excel_output,
                   text_files, excel_files, globbed, parsed, errors, created,
                   run, dir0, prev>>

\* one pass of the grouping loop
GroupLine ==
    /\ pc = "split"
    /\ idx <= Len(lines)
    /\ LET columns == Columns(lines[idx]) IN
        IF IndexError(columns)
        THEN /\ pc' = "failed"
             /\ UNCHANGED <<idx, grouped_data>>
        ELSE /\ pc' = pc
             /\ idx' = idx + 1
             /\ grouped_data' =
                    AddRecord(grouped_data, InstructionCode(columns), lines[idx])
    /\ UNCHANGED <<input_file, max_rows, unwritable, intermediate, excel_output,
                   lines, header, written, text_files, excel_files, globbed,
                   parsed, errors, created, run, dir0, prev>>

\* one pass of the writing loop, over the dict in insertion order
WriteGroup ==
    /\ pc = "split"
    /\ idx > Len(lines)
    /\ Len(written) < Len(grouped_data)
    /\ LET g == grouped_data[Len(written) + 1] IN
        /\ intermediate' =
                Put(intermediate, OutputFile(g.key), GroupContent(header, g.records))
        /\ written' = Append(written, OutputFile(g.key))
    /\ UNCHANGED <<input_file, max_rows, unwritable, excel_output, pc, lines,
                   header, idx, grouped_data, text_files, excel_files, globbed,
                   parsed, errors, created, run, dir0, prev>>

(***************************************************************************)
(* pd.read_csv(text_file, sep=delimiter, dtype=str)                        *)
(*                                                                         *)
(* Blank lines are skipped (skip_blank_lines); the first line left names   *)
(* the columns.  The first data row may be wider than the header: its      *)
(* leading extra fields become the index of the frame.  A shorter row is   *)
(* filled with NaN; a later row wider than the first raises ParserError.   *)
(* An empty field is read as NaN (default na_values), any other as text.   *)
(***************************************************************************)
NaN == <<"nan">>

StripEnding(line) ==
    IF line # <<>> /\ line[Len(line)] = NL THEN SubSeq(line, 1, Len(line) - 1) ELSE line

RECURSIVE SkipBlank(_)
SkipBlank(ls) ==
    IF ls = <<>> THEN <<>>
    ELSE IF Strip(Head(ls)) = <<>> THEN SkipBlank(Tail(ls))
    ELSE <<Split(StripEnding(Head(ls)), DefaultDelimiter)>> \o SkipBlank(Tail(ls))

Cell(field) == IF field = <<>> THEN NaN ELSE field

\* the cells of a tokenized row in a frame of `width` fields whose first
\* `index` fields are the index
RowCells(fields, width, index) ==
    [c \in 1..(width - index) |->
        IF c + index <= Len(fields) THEN Cell(fields[c + index]) ELSE NaN]

ParseCsv(content) ==
    LET toks == SkipBlank(ReadLines(content)) IN
    IF toks = <<>>
    THEN [ok |-> FALSE, columns |-> <<>>, rows |-> <<>>]
    ELSE
        LET names == toks[1]
            data == Tail(toks)
            width == IF data = <<>> THEN Len(names) ELSE Max(Len(names), Len(data[1]))
            index == width - Len(names)
        IN  IF \E k \in DOMAIN data : Len(data[k]) > width
            THEN [ok |-> FALSE, columns |-> <<>>, rows |-> <<>>]
            ELSE [ok |-> TRUE,
                  columns |-> names,
                  rows |-> [k \in DOMAIN data |-> RowCells(data[k], width, index)]]

(***************************************************************************)
(* convert_text_to_excel                                                   *)
(***************************************************************************)
\* df.iloc[start:end]: a negative bound counts from the end of the frame
PySlice(rows, start, end) ==
    LET n == Len(rows)
        s == IF start < 0 THEN Max(n + start, 0) ELSE Min(start, n)
        e == IF end < 0 THEN Max(n + end, 0) ELSE Min(end, n)
    IN  IF s >= e THEN <<>> ELSE SubSeq(rows, s + 1, e)

NeedsSplit_atLimit(n, m) == n >= m

\* len(df) > max_rows
NeedsSplit(n, m) == n > m

NumSplits_floor(n, m) == FloorDiv(n, m)

\* num_splits = (len(df) + max_rows - 1) // max_rows
NumSplits(n, m) == FloorDiv(n + m - 1, m)

SplitName(base, i) == base \o PartTag \o Str(i + 1) \o XlsxExt

SingleName(base) == base \o XlsxExt

\* the workbooks one pass of the loop over text_files sets out to write, in
\* order: `part` is i+1 of the split loop, 0 for the workbook of a whole file
Batches(base, df, m) ==
    IF NeedsSplit(Len(df.rows), m)
    THEN [i \in 1..Max(NumSplits(Len(df.rows), m), 0) |->
            [name |-> SplitName(base, i - 1),
             part |-> i,
             columns |-> df.columns,
             rows |-> PySlice(df.rows, (i - 1) * m,
                              Min(i * m, Len(df.rows)))]]
    ELSE <<[name |-> SingleName(base), part |-> 0,
            columns |-> df.columns, rows |-> df.rows]>>

\* the batches written before pd.ExcelWriter first raises
RECURSIVE Emitted(_, _)
Emitted(bs, bad) ==
    IF bs = <<>> \/ Head(bs).name \in bad THEN <<>>
    ELSE <<Head(bs)>> \o Emitted(Tail(bs), bad)

RECURSIVE PutAll(_, _)
PutAll(dir, bs) ==
    IF bs = <<>> THEN dir
    ELSE PutAll(Put(dir, Head(bs).name,
                    [columns |-> Head(bs).columns, rows |-> Head(bs).rows]),
                Tail(bs))

Names(bs) == [i \in DOMAIN bs |-> bs[i].name]

ReportedFirst(files, bs, done) == files \o Names(bs)

\* excel_files after a pass: a path is appended once its workbook is written
Reported(files, bs, done) == files \o Names(done)

\* the split function returns; convert_text_to_excel globs the intermediate folder
StartConvert ==
    /\ pc = "split"
    /\ idx > Len(lines)
    /\ Len(written) = Len(grouped_data)
    /\ pc' = "convert"
    /\ NoLocals
    /\ text_files' = Glob(intermediate)
    /\ globbed' = Glob(intermediate)
    /\ excel_files' = <<>>
    /\ parsed' = {}
    /\ errors' = {}
    /\ created' = [f \in Glob(intermediate) |-> <<>>]
    /\ UNCHANGED <<input_file, max_rows, unwritable, intermediate, excel_output,
                   written, run, dir0, prev>>

\* one pass of the loop over text_files, the try block and its handler
ConvertFile ==
    /\ pc = "convert"
    /\ \E text_file \in text_files :
        LET df == ParseCsv(intermediate[text_file])
            base_filename == SplitExtRoot(text_file)
            zero == df.ok /\ NeedsSplit(Len(df.rows), max_rows) /\ max_rows = 0
            bs == IF df.ok /\ ~zero THEN Batches(base_filename, df, max_rows) ELSE <<>>
            done == Emitted(bs, unwritable)
        IN  /\ text_files' = text_files \ {text_file}
            /\ parsed' = IF df.ok THEN parsed \cup {text_file} ELSE parsed
            /\ errors' = IF ~df.ok \/ zero \/ Len(done) < Len(bs)
                         THEN errors \cup {text_file} ELSE errors
            /\ excel_output' = PutAll(excel_output, done)
            /\ excel_files' = Reported(excel_files, bs, done)
            /\ created' = [created EXCEPT ![text_file] = done]
    /\ UNCHANGED <<input_file, max_rows, unwritable, intermediate, pc, lines,
                   header, idx, grouped_data, written, globbed, run, dir0, prev>>

\* the loop is over: excel_files is returned and main() prints its summary
Summary ==
    /\ pc = "convert"
    /\ text_files = {}
    /\ pc' = "done"
    /\ UNCHANGED <<input_file, max_rows, unwritable, intermediate, excel_output,
                   lines, header, idx, grouped_data, written, text_files,
                   excel_files, globbed, parsed, errors, created, run, dir0, prev>>

(***************************************************************************)
(* Inputs.  A line of the pool is a data line without its line ending.     *)
(***************************************************************************)
HeaderLine == <<"h", "~", "k">>

LinePool ==
    { <<"1", "~", "A">>,                                \* code A
      <<"2", "~", "A", "~", "x">>,                      \* code A, a third field
      <<"3", "~", "B", " ">>,                           \* code B, trailing blank
      <<"4">>,                                          \* no delimiter
      <<"5", "~", "A", "_", "p", "a", "r", "t", "1">>,  \* code A_part1
      <<"6", "~">> }                                    \* empty code

TwicePool ==
    { <<"1", "~", "A">>,
      <<"5", "~", "A", "_", "p", "a", "r", "t", "1">> }

SeqsUpTo(S, n) == UNION {[1..k -> S] : k \in 0..n}

RECURSIVE JoinLines(_)
JoinLines(bodies) ==
    IF bodies = <<>> THEN <<>> ELSE Head(bodies) \o <<NL>> \o JoinLines(Tail(bodies))

\* a file of a header line and data lines, with or without the final line ending
FileOf(hdr, bodies, ending) ==
    LET all == JoinLines(<<hdr>> \o bodies)
    IN  IF ending THEN all ELSE SubSeq(all, 1, Len(all) - 1)

Inputs ==
    {<<>>} \cup
    {FileOf(h, b, e) : h \in {HeaderLine, <<>>}, b \in SeqsUpTo(LinePool, MaxLines),
                       e \in BOOLEAN}

TwiceInputs == {FileOf(HeaderLine, b, TRUE) : b \in SeqsUpTo(TwicePool, TwiceMaxLines)}

RowLimits == (0 - MaxNeg)..MaxRows

Unwritable == { {}, {<<"A">> \o PartTag \o <<"2">> \o XlsxExt} }

NoPrev == [run |-> 0]

InitFrom(inputs, limits, refused) ==
    /\ input_file \in inputs
    /\ max_rows \in limits
    /\ unwritable \in refused
    /\ intermediate = EmptyDir
    /\ excel_output = EmptyDir
    /\ pc = "start"
    /\ lines = <<>>
    /\ header = <<>>
    /\ idx = 0
    /\ grouped_data = <<>>
    /\ written = <<>>
    /\ text_files = {}
    /\ excel_files = <<>>
    /\ globbed = {}
    /\ parsed = {}
    /\ errors = {}
    /\ created = EmptyDir
    /\ run = 1
    /\ dir0 = EmptyDir
    /\ prev = NoPrev

Init == InitFrom(Inputs, RowLimits, Unwritable)

InitTwice == InitFrom(TwiceInputs, 1..MaxRows, {{}})

\* main() is run again in the same directory, on the same or another input
\* file of that directory and with the same or another max_rows
Rerun ==
    /\ pc \in {"done", "failed"}
    /\ run < MaxRuns
    /\ input_file' \in TwiceInputs
    /\ max_rows' \in 1..MaxRows
    /\ prev' = [run |-> run, input_file |-> input_file, max_rows |-> max_rows,
                pc |-> pc, intermediate |-> intermediate,
                excel_output |-> excel_output]
    /\ run' = run + 1
    /\ dir0' = intermediate
    /\ pc' = "start"
    /\ NoLocals
    /\ written' = <<>>
    /\ text_files' = {}
    /\ excel_files' = <<>>
    /\ globbed' = {}
    /\ parsed' = {}
    /\ errors' = {}
    /\ created' = EmptyDir
    /\ UNCHANGED <<unwritable, intermediate, excel_output>>

Next ==
    \/ ReadInput
    \/ GroupLine
    \/ WriteGroup
    \/ StartConvert
    \/ ConvertFile
    \/ Summary

NextTwice == Next \/ Rerun

Spec == Init /\ [][Next]_vars

SpecTwice == InitTwice /\ [][NextTwice]_vars

(***************************************************************************)
(* What the properties speak of, read off the input file and the folders.  *)
(***************************************************************************)
\* the data lines of the input file: every line after the header
DataLines == IF input_file = <<>> THEN <<>> ELSE Tail(ReadLines(input_file))

\* the fields of a line stripped of its line ending only
Fields(line) == Split(StripEnding(line), DefaultDelimiter)

\* a line of fewer than two delimiter-separated fields
Malformed(line) == Len(Fields(line)) < 2

\* the field-index-1 value of a line
SecondField(line) == Fields(line)[2]

HasMalformed == \E j \in DOMAIN DataLines : Malformed(DataLines[j])

\* the grouping stage has returned
SplitDone == pc \in {"convert", "done"}

\* the data lines of an artifact: its lines without the leading header line
ArtifactLines(content) == Tail(ReadLines(content))

BagOf(s) == [x \in Range(s) |-> Cardinality({i \in DOMAIN s : s[i] = x})]

RECURSIVE SumLen(_)
SumLen(ss) == IF ss = <<>> THEN 0 ELSE Len(Head(ss)) + SumLen(Tail(ss))

\* ceil(n / m) for n >= 0 and m >= 1
Ceil(n, m) == CHOOSE c \in 0..n : c * m >= n /\ (c - 1) * m < n

\* the files of this run's glob whose pass of the loop ended without an error
Converted == (globbed \ text_files) \ errors

\* <base> of an artifact: its name without the .txt extension
Base(f) == SubSeq(f, 1, Len(f) - Len(TxtExt))

\* the rows the conversion stage parsed from an artifact
ParsedRows(f) == ParseCsv(intermediate[f]).rows

(***************************************************************************)
(* C1.  Once the grouping stage has returned, every data line is in the    *)
(* artifact named after its second field (the line stripped of its line    *)
(* ending only), that artifact holds exactly the data lines with that      *)
(* second field, in source order, and there is no other artifact.          *)
(***************************************************************************)
C1_KeyedBySecondField ==
    SplitDone =>
        /\ \A j \in DOMAIN DataLines :
            LET code == SecondField(DataLines[j])
                SameCode(l) == SecondField(l) = code
            IN  /\ OutputFile(code) \in DOMAIN intermediate
                /\ ArtifactLines(intermediate[OutputFile(code)])
                        = SelectSeq(DataLines, SameCode)
        /\ DOMAIN intermediate
                = {OutputFile(SecondField(DataLines[j])) : j \in DOMAIN DataLines}

\* the artifacts written, read back in the order they were written, each
\* without its leading header line
Rejoined == Concat([k \in DOMAIN written |-> ArtifactLines(intermediate[written[k]])])

(***************************************************************************)
(* C4.  Once the grouping stage has returned, the artifacts it wrote, read *)
(* back in the order they were written and each without its leading header *)
(* line, hold the same multiset of lines as the data lines of the source.  *)
(***************************************************************************)
C4_RejoinReproducesDataLines ==
    SplitDone => BagOf(Rejoined) = BagOf(DataLines)

\* three data lines in two or more groups, the last line without a line ending
C4_Witness ==
    /\ pc = "done"
    /\ Len(DataLines) = MaxLines
    /\ Len(written) >= 2
    /\ input_file[Len(input_file)] # NL

\* the grouping stage has not got past its grouping loop and has written or
\* truncated no intermediate file
NothingWritten ==
    /\ intermediate = dir0
    /\ written = <<>>
    /\ pc \in {"start", "split", "failed"}
    /\ pc = "split" => idx <= Len(lines)

(***************************************************************************)
(* C5.  When the input file holds a malformed data line, at any position,  *)
(* no intermediate file is written or truncated and the grouping stage     *)
(* does not get past its grouping loop, where it fails: in every state     *)
(* either nothing is written or no data line is malformed.                 *)
(***************************************************************************)
C5_MalformedFailsBeforeWrite == NothingWritten \/ ~HasMalformed

\* the failure at the last of three data lines, two groups already built
C5_Witness ==
    /\ pc = "failed"
    /\ Len(DataLines) = MaxLines
    /\ Malformed(DataLines[MaxLines])
    /\ Len(grouped_data) = MaxLines - 1

(***************************************************************************)
(* C6.  With max_rows <= 0 the conversion stage fails before any artifact  *)
(* is parsed: no file is parsed and no workbook is written.                *)
(***************************************************************************)
C6_NonPositiveMaxRowsRejected ==
    max_rows <= 0 =>
        /\ parsed = {}
        /\ DOMAIN excel_output = {}

\* rows [(i-1)*m, min(i*m, n)) of the parsed rows, i counted from 1
RowsOfBatch(rows, i, m) ==
    [k \in 1..(Min(i * m, Len(rows)) - (i - 1) * m) |-> rows[(i - 1) * m + k]]

\* the batches written for artifact f: `count` of them, each of at most
\* max_rows rows, batch i the i-th slice of the parsed rows, all rows in all
BatchesAre(f, count) ==
    LET rows == ParsedRows(f)
        bs == created[f]
    IN  /\ Len(bs) = count
        /\ \A i \in DOMAIN bs :
            /\ Len(bs[i].rows) <= max_rows
            /\ bs[i].rows = RowsOfBatch(rows, i, max_rows)
        /\ SumLen([i \in DOMAIN bs |-> bs[i].rows]) = Len(rows)

(***************************************************************************)
(* C2, as stated.  For max_rows = m >= 1, an artifact of n parsed rows     *)
(* converted without error is written as exactly ceil(n/m) batches, each   *)
(* of at most m rows, their sizes summing to n, batch i holding rows       *)
(* [(i-1)*m, min(i*m, n)).                                                 *)
(***************************************************************************)
C2_CeilBatches ==
    max_rows >= 1 =>
        \A f \in Converted : BatchesAre(f, Ceil(Len(ParsedRows(f)), max_rows))

(***************************************************************************)
(* C2, amended.  For max_rows = m >= 1, an artifact of n parsed rows       *)
(* converted without error is written as exactly max(1, ceil(n/m))         *)
(* batches (one batch of no rows when n = 0), each of at most m rows,      *)
(* their sizes summing to n, batch i holding rows [(i-1)*m, min(i*m, n)).  *)
(***************************************************************************)
C2_Batches ==
    max_rows >= 1 =>
        \A f \in Converted :
            BatchesAre(f, Max(1, Ceil(Len(ParsedRows(f)), max_rows)))

\* three rows in batches of two: a full batch and a partial one
C2_Witness ==
    /\ max_rows = 2
    /\ \E f \in Converted : Len(ParsedRows(f)) = 3 /\ Len(created[f]) = 2

(***************************************************************************)
(* C3.  An artifact of n <= max_rows parsed rows converted without error   *)
(* is written as exactly one batch holding all n rows, named <base>.xlsx;  *)
(* a batch named with a _part<i> suffix is written only when n > max_rows. *)
(***************************************************************************)
C3_SingleBatch ==
    \A f \in Converted :
        /\ Len(ParsedRows(f)) <= max_rows =>
                /\ Len(created[f]) = 1
                /\ created[f][1].name = Base(f) \o XlsxExt
                /\ created[f][1].part = 0
                /\ created[f][1].rows = ParsedRows(f)
        /\ \A i \in DOMAIN created[f] :
                created[f][i].part # 0 => Len(ParsedRows(f)) > max_rows

\* an artifact of exactly max_rows rows, written whole
C3_Witness ==
    \E f \in Converted :
        /\ Len(ParsedRows(f)) = max_rows
        /\ max_rows = MaxRows
        /\ Len(created[f]) = 1

(***************************************************************************)
(* C7.  An error in the pass for one artifact does not end the run; at the *)
(* summary every globbed artifact has had its pass, every artifact without *)
(* an error has all its workbooks in the output folder and in the list,    *)
(* holding all its rows when max_rows >= 1, and at every moment the list   *)
(* of created files names exactly the workbooks written.                   *)
(***************************************************************************)
C7_FailureIsolation ==
    /\ errors # {} => pc \in {"convert", "done"}
    /\ Range(excel_files) = DOMAIN excel_output
    /\ pc = "done" =>
        /\ text_files = {}
        /\ \A f \in globbed \ errors :
            /\ f \in parsed
            /\ \A i \in DOMAIN created[f] :
                /\ created[f][i].name \in DOMAIN excel_output
                /\ created[f][i].name \in Range(excel_files)
            /\ max_rows >= 1 =>
                /\ created[f] # <<>>
                /\ SumLen([i \in DOMAIN created[f] |-> created[f][i].rows])
                        = Len(ParsedRows(f))

\* a run that ended with an artifact in error, a part of it written before the
\* error, and another artifact converted
C7_Witness ==
    /\ pc = "done"
    /\ max_rows = 1
    /\ \E f \in errors : created[f] # <<>>
    /\ \E f \in globbed \ errors : created[f] # <<>>

(***************************************************************************)
(* C8.  A second run on the input and max_rows of the run before it, which *)
(* completed, leaves the intermediate folder and the workbooks as that run *)
(* left them.                                                              *)
(***************************************************************************)
C8_Idempotent ==
    (/\ pc = "done"
     /\ prev.run >= 1
     /\ prev.pc = "done"
     /\ prev.input_file = input_file
     /\ prev.max_rows = max_rows)
        => /\ intermediate = prev.intermediate
           /\ excel_output = prev.excel_output

(***************************************************************************)
(* C9.  The conversion stage of a run processes only artifacts written by  *)
(* the grouping stage of that run.                                         *)
(***************************************************************************)
C9_NoStateSurvives ==
    pc \in {"convert", "done"} => globbed \subseteq Range(written)

\* the row of cells a data line stands for
RowOf(line) == [c \in DOMAIN Fields(line) |-> Cell(Fields(line)[c])]

\* the rows of the workbooks `names` of a folder
RECURSIVE AllRows(_, _)
AllRows(dir, names) ==
    IF names = {} THEN <<>>
    ELSE LET n == CHOOSE x \in names : TRUE
         IN  dir[n].rows \o AllRows(dir, names \ {n})

(***************************************************************************)
(* C10.  A run in a fresh directory with max_rows >= 1 that ends without   *)
(* an error has read every artifact its grouping stage wrote, and the rows *)
(* of the workbooks in the output folder are, as a multiset, the data      *)
(* lines of the source, one row for each line.                             *)
(***************************************************************************)
C10_EveryLineInOneWorkbook ==
    (pc = "done" /\ run = 1 /\ max_rows >= 1 /\ errors = {}) =>
        /\ Range(written) \subseteq globbed
        /\ BagOf(AllRows(excel_output, DOMAIN excel_output))
                = BagOf([j \in DOMAIN DataLines |-> RowOf(DataLines[j])])

====
